---- MODULE Spec2Model ----
(***************************************************************************)
(* A model of the amplitude-modulation voice AMSynth                       *)
(* (src/Tone/instrument/AMSynth.ts): the signal graph its constructor      *)
(* wires, the trigger forwarding to the two sub-voices' envelopes, and     *)
(* dispose().                                                              *)
(*                                                                         *)
(* Signal values are exact rationals <<n, d>> in lowest terms, d > 0.      *)
(***************************************************************************)
EXTENDS Integers, Sequences, FiniteSets, TLC

\* ------------------------------------------------------------------ bounds

\* The longest list of trigger events an envelope receives in a run.
MaxEvents == 2

\* The number of dispose() calls a run makes.
MaxDisposeCalls == 2

\* --------------------------------------------------------- exact rationals

Abs(n) == IF n < 0 THEN -n ELSE n

RECURSIVE GCD(_, _)
GCD(a, b) == IF b = 0 THEN a ELSE GCD(b, a % b)

\* n/d in lowest terms with a positive denominator (d # 0).
Rat(n, d) ==
    LET g == GCD(Abs(n), Abs(d))
        s == IF d < 0 THEN -1 ELSE 1
    IN  << (s * n) \div g, (s * d) \div g >>

RInt(n) == << n, 1 >>

RAdd(a, b) == Rat(a[1] * b[2] + b[1] * a[2], a[2] * b[2])

RMul(a, b) == Rat(a[1] * b[1], a[2] * b[2])

RLeq(a, b) == a[1] * b[2] <= b[1] * a[2]

RECURSIVE RSum(_, _)
\* The sum of f[e] over the finite set S.
RSum(f, S) ==
    IF S = {} THEN RInt(0)
    ELSE LET e == CHOOSE x \in S : TRUE
         IN  RAdd(f[e], RSum(f, S \ {e}))

\* ------------------------------------------------------ inputs of the runs

\* getDefaults(): harmonicity: 3.
DefaultHarmonicity == 3

\* Values a caller gives the frequency control (Hz); a fresh Signal holds 0.
FrequencyValues == { RInt(0), RInt(220), RInt(440) }

\* Values a caller gives the harmonicity control (ratio >= 0).
HarmonicityValues == { RInt(0), Rat(1, 2), RInt(DefaultHarmonicity) }

\* Values a caller gives the detune control (cents).
DetuneValues == { RInt(0), RInt(1200) }

\* Carrier and modulator output samples, each within [-1, 1].
CarrierSamples == { RInt(-1), Rat(1, 2), RInt(1) }

ModulatorSamples == { RInt(-1), Rat(-1, 2), RInt(1) }

\* Timestamps and velocities of the trigger calls.
Times == { 0, 1 }

Velocities == { 0, 1 }

\* ---------------------------------------------------------------- the voice

\* The two sub-voices (Synth), this._carrier and this._modulator.
SubVoices == { "carrier", "modulator" }

\* What dispose() releases besides the sub-voices.
ControlsAndNodes ==
    { "frequency", "detune", "harmonicity", "modulationScale", "modulationNode" }

\* The ports of the graph. A port "r.p" is input p of resource r; "output" is
\* the voice's output, which the base class owns.
Owner(port) ==
    CASE port \in { "carrier", "carrier.frequency", "carrier.detune" } -> "carrier"
      [] port \in { "modulator", "modulator.frequency", "modulator.detune" } -> "modulator"
      [] port \in { "modulationNode", "modulationNode.gain" } -> "modulationNode"
      [] OTHER -> port

VARIABLES
    frequency,      \* this.frequency.value
    detune,         \* this.detune.value
    harmonicity,    \* this.harmonicity.value, the factor of the Multiply
    connections,    \* the edges <<from, to>> of the signal graph
    env,            \* per sub-voice, its envelope: the state and the triggers received
    disposed,       \* the base class's disposed flag
    disposeCalls,   \* how many times dispose() was called
    releaseLog,     \* every dispose() of an owned resource, in order: [res, call]
    lastError,      \* the outcome of the latest call on the voice
    sample,         \* the latest rendered carrier sample c and modulator sample x
    out             \* the voice's output for that sample

vars == << frequency, detune, harmonicity, connections, env, disposed,
           disposeCalls, releaseLog, lastError, sample, out >>

\* ------------------------------------------------------------- the graph

\* a.connect(b)
Connect(a, b) == { << a, b >> }

\* a.chain(b, c, ...): a -> b -> c -> ...
Chain(nodes) == { << nodes[i], nodes[i + 1] >> : i \in 1 .. (Len(nodes) - 1) }

\* a.fan(b, c, ...): a -> b, a -> c, ...
Fan(a, dests) == { << a, d >> : d \in dests }

\* new Gain({ gain: 0 }): the gain node's own gain.
ModulationNodeGain == 0

\* Mutant: the modulator's pitch input is fed by frequency directly.
ConnectionsModulatorUnscaled ==
    Connect("frequency", "carrier.frequency")
        \cup Connect("frequency", "modulator.frequency")
        \cup Fan("detune", { "carrier.detune", "modulator.detune" })
        \cup Chain(<< "modulator", "modulationScale", "modulationNode.gain" >>)
        \cup Chain(<< "carrier", "modulationNode", "output" >>)

\* Mutant: the two pitch inputs are swapped, the multiplier feeds the carrier.
ConnectionsHarmonicityOnCarrier ==
    Connect("frequency", "modulator.frequency")
        \cup Chain(<< "frequency", "harmonicity", "carrier.frequency" >>)
        \cup Fan("detune", { "carrier.detune", "modulator.detune" })
        \cup Chain(<< "modulator", "modulationScale", "modulationNode.gain" >>)
        \cup Chain(<< "carrier", "modulationNode", "output" >>)

\* Mutant: detune reaches the carrier only.
ConnectionsDetuneCarrierOnly ==
    Connect("frequency", "carrier.frequency")
        \cup Chain(<< "frequency", "harmonicity", "modulator.frequency" >>)
        \cup Connect("detune", "carrier.detune")
        \cup Chain(<< "modulator", "modulationScale", "modulationNode.gain" >>)
        \cup Chain(<< "carrier", "modulationNode", "output" >>)

\* Mutant: the modulator drives the gain input without the scaling stage.
ConnectionsModulationUnscaled ==
    Connect("frequency", "carrier.frequency")
        \cup Chain(<< "frequency", "harmonicity", "modulator.frequency" >>)
        \cup Fan("detune", { "carrier.detune", "modulator.detune" })
        \cup Chain(<< "modulator", "modulationNode.gain" >>)
        \cup Chain(<< "carrier", "modulationNode", "output" >>)

\* The connections the constructor makes.
Connections ==
    Connect("frequency", "carrier.frequency")
        \cup Chain(<< "frequency", "harmonicity", "modulator.frequency" >>)
        \cup Fan("detune", { "carrier.detune", "modulator.detune" })
        \cup Chain(<< "modulator", "modulationScale", "modulationNode.gain" >>)
        \cup Chain(<< "carrier", "modulationNode", "output" >>)

\* AudioToGain: a signal in [-1, 1] becomes a gain in [0, 1].
AudioToGain(x) == RMul(RAdd(x, RInt(1)), Rat(1, 2))

RECURSIVE NodeOutput(_, _, _)
\* What port n carries, given the edges conns and the sub-voices' samples smp.
\* A port with nothing connected to it receives 0.
NodeOutput(n, conns, smp) ==
    LET incoming == { e \in conns : e[2] = n }
        in == RSum([e \in incoming |-> NodeOutput(e[1], conns, smp)], incoming)
    IN  CASE n = "frequency" -> frequency
          [] n = "detune" -> detune
          [] n = "harmonicity" -> RMul(in, harmonicity)
          [] n = "carrier" -> smp.c
          [] n = "modulator" -> smp.x
          [] n = "modulationScale" -> AudioToGain(in)
          [] n = "modulationNode.gain" -> RAdd(RInt(ModulationNodeGain), in)
          [] n = "modulationNode" ->
                RMul(in, NodeOutput("modulationNode.gain", conns, smp))
          [] OTHER -> in

\* The control inputs of the sub-voices in the current state.
CarrierPitch == NodeOutput("carrier.frequency", connections, sample)

ModulatorPitch == NodeOutput("modulator.frequency", connections, sample)

CarrierDetune == NodeOutput("carrier.detune", connections, sample)

ModulatorDetune == NodeOutput("modulator.detune", connections, sample)

\* ---------------------------------------------------------- the envelopes

\* A sub-voice's envelope before any trigger.
IdleEnvelope == [ state |-> "idle", events |-> << >> ]

\* Synth._triggerEnvelopeAttack(time, velocity) on one sub-voice.
SynthTriggerEnvelopeAttack(e, time, velocity) ==
    [ state |-> "attacking",
      events |-> Append(e.events, << "attack", time, velocity >>) ]

\* Synth._triggerEnvelopeRelease(time) on one sub-voice.
SynthTriggerEnvelopeRelease(e, time) ==
    [ state |-> "releasing",
      events |-> Append(e.events, << "release", time >>) ]

\* Mutant: the attack reaches the carrier only.
_triggerEnvelopeAttackCarrierOnly(envs, time, velocity) ==
    [ envs EXCEPT !["carrier"] = SynthTriggerEnvelopeAttack(@, time, velocity) ]

\* AMSynth._triggerEnvelopeAttack: the carrier, then the modulator.
_triggerEnvelopeAttack(envs, time, velocity) ==
    LET afterCarrier ==
            [ envs EXCEPT !["carrier"] = SynthTriggerEnvelopeAttack(@, time, velocity) ]
    IN  [ afterCarrier EXCEPT
            !["modulator"] = SynthTriggerEnvelopeAttack(@, time, velocity) ]

\* Mutant: the release reaches the carrier only.
_triggerEnvelopeReleaseCarrierOnly(envs, time) ==
    [ envs EXCEPT !["carrier"] = SynthTriggerEnvelopeRelease(@, time) ]

\* AMSynth._triggerEnvelopeRelease: the carrier, then the modulator.
_triggerEnvelopeRelease(envs, time) ==
    LET afterCarrier ==
            [ envs EXCEPT !["carrier"] = SynthTriggerEnvelopeRelease(@, time) ]
    IN  [ afterCarrier EXCEPT !["modulator"] = SynthTriggerEnvelopeRelease(@, time) ]

\* Room in both event lists for one more trigger.
CanRecord ==
    \A v \in SubVoices : Len(env[v].events) < MaxEvents

\* ----------------------------------------------------------------- dispose

\* Mutant: dispose() forgets the detune control.
DisposeOrderWithoutDetune ==
    << "carrier", "modulator", "frequency", "harmonicity",
       "modulationScale", "modulationNode" >>

\* Mutant: dispose() releases the sub-voices last.
DisposeOrderSubVoicesLast ==
    << "frequency", "detune", "harmonicity", "modulationScale",
       "modulationNode", "carrier", "modulator" >>

\* The order in which dispose() releases what the voice owns.
DisposeOrder ==
    << "carrier", "modulator", "frequency", "detune", "harmonicity",
       "modulationScale", "modulationNode" >>

\* super.dispose(): the base class's teardown marks the instance disposed;
\* a second call finds it marked and changes nothing.
SuperDispose(flag) == TRUE

\* How many times resource r was released.
ReleaseCount(r) ==
    Cardinality({ i \in 1 .. Len(releaseLog) : releaseLog[i].res = r })

\* A released resource's connections are gone.
Disconnect(conns, released) ==
    { e \in conns : Owner(e[1]) \notin released /\ Owner(e[2]) \notin released }

\* ------------------------------------------------------------- operations

Init ==
    /\ frequency = RInt(0)
    /\ detune \in DetuneValues
    /\ harmonicity = RInt(DefaultHarmonicity)
    /\ connections = Connections
    /\ env = [ v \in SubVoices |-> IdleEnvelope ]
    /\ disposed = FALSE
    /\ disposeCalls = 0
    /\ releaseLog = << >>
    /\ lastError = "none"
    /\ sample = [ c |-> RInt(0), x |-> RInt(0) ]
    /\ out = RInt(0)

\* frequency.value = f
SetFrequency(f) ==
    /\ ReleaseCount("frequency") = 0
    /\ frequency' = f
    /\ UNCHANGED << detune, harmonicity, connections, env, disposed,
                    disposeCalls, releaseLog, lastError, sample, out >>

\* detune.value = d
SetDetune(d) ==
    /\ ReleaseCount("detune") = 0
    /\ detune' = d
    /\ UNCHANGED << frequency, harmonicity, connections, env, disposed,
                    disposeCalls, releaseLog, lastError, sample, out >>

\* harmonicity.value = h
SetHarmonicity(h) ==
    /\ ReleaseCount("harmonicity") = 0
    /\ harmonicity' = h
    /\ UNCHANGED << frequency, detune, connections, env, disposed,
                    disposeCalls, releaseLog, lastError, sample, out >>

\* triggerAttack(time, velocity): refused on a disposed voice, otherwise
\* handed to _triggerEnvelopeAttack.
triggerAttack(time, velocity) ==
    /\ IF disposed
          THEN /\ lastError' = "UseAfterDispose"
               /\ UNCHANGED env
          ELSE /\ CanRecord
               /\ lastError' = "none"
               /\ env' = _triggerEnvelopeAttack(env, time, velocity)
    /\ UNCHANGED << frequency, detune, harmonicity, connections, disposed,
                    disposeCalls, releaseLog, sample, out >>

\* triggerRelease(time): refused on a disposed voice, otherwise handed to
\* _triggerEnvelopeRelease.
triggerRelease(time) ==
    /\ IF disposed
          THEN /\ lastError' = "UseAfterDispose"
               /\ UNCHANGED env
          ELSE /\ CanRecord
               /\ lastError' = "none"
               /\ env' = _triggerEnvelopeRelease(env, time)
    /\ UNCHANGED << frequency, detune, harmonicity, connections, disposed,
                    disposeCalls, releaseLog, sample, out >>

\* Mutant: dispose() without the call of super.dispose().
disposeWithoutSuper ==
    /\ disposeCalls < MaxDisposeCalls
    /\ disposeCalls' = disposeCalls + 1
    /\ releaseLog' =
          releaseLog \o [ i \in 1 .. Len(DisposeOrder) |->
                            [ res |-> DisposeOrder[i], call |-> disposeCalls + 1 ] ]
    /\ connections' =
          Disconnect(connections, { DisposeOrder[i] : i \in 1 .. Len(DisposeOrder) })
    /\ lastError' = "none"
    /\ UNCHANGED << frequency, detune, harmonicity, env, disposed, sample, out >>

\* dispose(): the base class's teardown, then every owned resource in
\* DisposeOrder. Nothing in it looks at whether the voice was disposed before.
dispose ==
    /\ disposeCalls < MaxDisposeCalls
    /\ disposeCalls' = disposeCalls + 1
    /\ disposed' = SuperDispose(disposed)
    /\ releaseLog' =
          releaseLog \o [ i \in 1 .. Len(DisposeOrder) |->
                            [ res |-> DisposeOrder[i], call |-> disposeCalls + 1 ] ]
    /\ connections' =
          Disconnect(connections, { DisposeOrder[i] : i \in 1 .. Len(DisposeOrder) })
    /\ lastError' = "none"
    /\ UNCHANGED << frequency, detune, harmonicity, env, sample, out >>

\* The rendering callback computes one output sample from a carrier sample c
\* and a modulator sample x through the graph.
Render(c, x) ==
    /\ sample' = [ c |-> c, x |-> x ]
    /\ out' = NodeOutput("output", connections, [ c |-> c, x |-> x ])
    /\ UNCHANGED << frequency, detune, harmonicity, connections, env, disposed,
                    disposeCalls, releaseLog, lastError >>

Next ==
    \/ \E f \in FrequencyValues : SetFrequency(f)
    \/ \E d \in DetuneValues : SetDetune(d)
    \/ \E h \in HarmonicityValues : SetHarmonicity(h)
    \/ \E t \in Times, v \in Velocities : triggerAttack(t, v)
    \/ \E t \in Times : triggerRelease(t)
    \/ dispose
    \/ \E c \in CarrierSamples, x \in ModulatorSamples : Render(c, x)

Spec == Init /\ [][Next]_vars

\* ----------------------------------------------------------------- claims

\* The voice has not been disposed: the graph is as the constructor left it.
Live == disposeCalls = 0

\* Everything the voice owns.
Owned == SubVoices \cup ControlsAndNodes

RECURSIVE Reaches(_, _, _)
\* A path of connections leads from port a to port b.
Reaches(a, b, conns) ==
    \/ a = b
    \/ \E e \in conns : e[1] = a /\ Reaches(e[2], b, conns)

\* A step that is a trigger call on the voice.
TriggerCall ==
    \/ \E t \in Times, v \in Velocities : triggerAttack(t, v)
    \/ \E t \in Times : triggerRelease(t)

\* C1: in every reachable state the carrier's and the modulator's envelopes
\* are in the same state and have received the same list of trigger events,
\* with the same timestamps and velocities; never is one triggered and the
\* other not.
C1_EnvelopesInLockstep ==
    /\ env["carrier"].events = env["modulator"].events
    /\ env["carrier"].state = env["modulator"].state

\* C1 witness: a retrigger (an attack while attacking) reached both envelopes.
C1_Witness ==
    /\ Len(env["carrier"].events) = 2
    /\ env["carrier"].events[1] = << "attack", 0, 1 >>
    /\ env["carrier"].events[2] = << "attack", 1, 0 >>
    /\ env["modulator"].state = "attacking"

\* C2: on a live voice the modulator's pitch input is frequency x harmonicity
\* for the current values of both, whatever changes led there and whether or
\* not a note was triggered: 440 x 3 = 1320 and 220 x 1/2 = 110.
C2_ModulatorPitchIsProduct ==
    Live =>
        /\ ModulatorPitch = RMul(frequency, harmonicity)
        /\ (frequency = RInt(440) /\ harmonicity = RInt(3))
              => ModulatorPitch = RInt(1320)
        /\ (frequency = RInt(220) /\ harmonicity = Rat(1, 2))
              => ModulatorPitch = RInt(110)

\* C2 witness: frequency 220 and harmonicity 1/2 were set, no note was ever
\* triggered, and the modulator's pitch input is 110.
C2_Witness ==
    /\ Live
    /\ frequency = RInt(220)
    /\ harmonicity = Rat(1, 2)
    /\ ModulatorPitch = RInt(110)
    /\ env["carrier"].events = << >>

\* C3: on a live voice the carrier's pitch input equals the frequency control,
\* no path leads from the harmonicity multiplier to it, and a change of
\* harmonicity leaves it as it was.
C3_CarrierPitchIsFrequency ==
    /\ [](Live =>
            /\ CarrierPitch = frequency
            /\ ~Reaches("harmonicity", "carrier.frequency", connections)
            /\ Reaches("harmonicity", "modulator.frequency", connections))
    /\ [][(Live /\ \E h \in HarmonicityValues : SetHarmonicity(h))
            => CarrierPitch' = CarrierPitch]_vars

\* C3 witness: harmonicity was changed to 1/2 and the carrier's pitch input
\* is the frequency, 440.
C3_Witness ==
    /\ Live
    /\ harmonicity = Rat(1, 2)
    /\ frequency = RInt(440)
    /\ CarrierPitch = RInt(440)

\* C4: on a live voice the carrier's and the modulator's detune inputs both
\* equal the detune control, whatever frequency and harmonicity are.
C4_DetuneReachesBothUnscaled ==
    Live =>
        /\ CarrierDetune = detune
        /\ ModulatorDetune = detune

\* C4 witness: detune is 1200 cents with harmonicity 1/2 and frequency 440,
\* and both detune inputs are 1200.
C4_Witness ==
    /\ Live
    /\ detune = RInt(1200)
    /\ harmonicity = Rat(1, 2)
    /\ frequency = RInt(440)
    /\ CarrierDetune = RInt(1200)
    /\ ModulatorDetune = RInt(1200)

\* C5: on a live voice the output for a carrier sample c and a modulator
\* sample x is c * (x + 1) / 2; the gain input carries (x + 1) / 2, which lies
\* in [0, 1]; the modulator reaches the gain input only through the scaling
\* stage, the gain node adds no gain of its own, and the carrier reaches the
\* output only through the gain node.
C5_OutputIsCarrierTimesScaledModulator ==
    Live =>
        LET gain == NodeOutput("modulationNode.gain", connections, sample)
        IN  /\ RMul(RInt(2), out) = RMul(sample.c, RAdd(sample.x, RInt(1)))
            /\ RMul(RInt(2), gain) = RAdd(sample.x, RInt(1))
            /\ RLeq(RInt(0), gain)
            /\ RLeq(gain, RInt(1))
            /\ { e \in connections : e[2] = "modulationNode.gain" }
                  = { << "modulationScale", "modulationNode.gain" >> }
            /\ { e \in connections : e[2] = "modulationScale" }
                  = { << "modulator", "modulationScale" >> }
            /\ { e \in connections : e[1] = "modulator" }
                  = { << "modulator", "modulationScale" >> }
            /\ { e \in connections : e[1] = "carrier" }
                  = { << "carrier", "modulationNode" >> }
            /\ { e \in connections : e[2] = "output" }
                  = { << "modulationNode", "output" >> }
            /\ ModulationNodeGain = 0

\* C5 witness: carrier sample 1/2 and modulator sample -1/2 were rendered on a
\* live voice: the output is 1/2 * 1/4 = 1/8.
C5_Witness ==
    /\ Live
    /\ sample = [ c |-> Rat(1, 2), x |-> Rat(-1, 2) ]
    /\ out = Rat(1, 8)

\* C6: after a single dispose() every owned resource has been released
\* exactly once, and nothing else was released.
C6_SingleDisposeReleasesEachOnce ==
    disposeCalls = 1 =>
        /\ \A r \in Owned : ReleaseCount(r) = 1
        /\ \A i \in 1 .. Len(releaseLog) : releaseLog[i].res \in Owned

\* C6 witness: dispose() was called once.
C6_Witness ==
    /\ disposeCalls = 1
    /\ Len(releaseLog) = Cardinality(Owned)

\* C7 as claimed: after a second dispose() no error was raised and every
\* owned resource's release count is still 1.
C7_SecondDisposeReleasesNothing ==
    disposeCalls = 2 =>
        /\ lastError = "none"
        /\ \A r \in Owned : ReleaseCount(r) = 1

C9_ReleaseBeforeAttack ==
    [][/\ (/\ Live
           /\ \A v \in SubVoices : env[v] = IdleEnvelope
           /\ \E t \in Times : triggerRelease(t))
          => /\ lastError' = "none"
             /\ \A v \in SubVoices :
                   /\ env'[v].state = "releasing"
                   /\ Len(env'[v].events) = 1
                   /\ env'[v].events[1][1] = "release"
       /\ (/\ Live
           /\ \A v \in SubVoices :
                 /\ env[v].state = "releasing"
                 /\ Len(env[v].events) = 1
           /\ \E t \in Times, vel \in Velocities : triggerAttack(t, vel))
          => /\ lastError' = "none"
             /\ \A v \in SubVoices :
                   /\ env'[v].state = "attacking"
                   /\ Len(env'[v].events) = 2
                   /\ env'[v].events[2][1] = "attack"]_vars

\* C9 witness: a release came first, then an attack, and both envelopes are
\* attacking with no error.
C9_Witness ==
    /\ Live
    /\ lastError = "none"
    /\ \A v \in SubVoices :
          /\ env[v].state = "attacking"
          /\ env[v].events = << << "release", 0 >>, << "attack", 1, 1 >> >>

\* C10 as claimed: within a dispose() call each sub-voice is released after
\* every other owned node and control.
C10_SubVoicesReleasedLast ==
    \A i, j \in 1 .. Len(releaseLog) :
        (/\ releaseLog[i].call = releaseLog[j].call
         /\ releaseLog[i].res \in SubVoices
         /\ releaseLog[j].res \in ControlsAndNodes) => j < i

\* C10 as amended: within a dispose() call each sub-voice is released before
\* every other owned node and control.
C10_SubVoicesReleasedFirst ==
    \A i, j \in 1 .. Len(releaseLog) :
        (/\ releaseLog[i].call = releaseLog[j].call
         /\ releaseLog[i].res \in SubVoices
         /\ releaseLog[j].res \in ControlsAndNodes) => i < j

\* C10 witness: a dispose() call released the sub-voices and the five other
\* resources.
C10_Witness ==
    /\ disposeCalls >= 1
    /\ \A r \in Owned : \E i \in 1 .. Len(releaseLog) : releaseLog[i].res = r

====
